---- MODULE Spec2Model ----
(***************************************************************************)
(* The topic clustering and labeling script of analysis-model/model.py as  *)
(* a state machine: one action per statement group of the script, in the   *)
(* order the module-level code runs them.  Strings are sequences of        *)
(* one-character strings.  An unhandled exception ends the run in          *)
(* pc = "crashed" with the exception's class in exc.                       *)
(***************************************************************************)
EXTENDS Integers, Sequences, FiniteSets, TLC

VARIABLES
    pc,                     \* the statement the script is about to run
    posts,                  \* the rows of delhiDatacsv.csv as read (never changed)
    df,                     \* the data frame: a sequence of rows
    detected,               \* ids of the rows detect() has been invoked on
    encoded,                \* model.encode has run
    embeddings,             \* one vector per row of df, by position
    todo,                   \* cluster ids the labeling loop has still to visit
    cluster_id,             \* the labeling loop's current cluster id
    cluster_docs,           \* the labeling loop's cluster_docs
    docs,                   \* label_topic's docs argument (docs_for_gemini)
    i,                      \* label_topic's loop index
    delay,                  \* label_topic's delay
    outcomes,               \* what generate_content did on each call of this label_topic
    slept,                  \* the time.sleep arguments of this label_topic, in order
    lastEvent,              \* the latest generate_content call or sleep of the run
    delayed,                \* cluster ids whose inter-call sleep has been slept
    topic_labels,
    topic_representatives,
    exc,                    \* the exception that ended the run
    csv,                    \* cleaned_delhiData_with_labels.csv
    json,                   \* topic_representatives.json
    printed,                \* the "All Topic Labels" listing printed at the end
    rep_max_posts,          \* get_representative_posts' max_posts, when called on its own
    request,                \* the query of a GET /api/v1/scrape: subreddit, method
    listing,                \* created_utc of the posts the Reddit listing yields, in order
    spc,                    \* where the handling of the request stands
    posts_data,             \* scrape_posts' posts_data
    files,                  \* the working directory: a set of <<file name, content>>
    collections,            \* the database reddit_data: a set of <<collection name, documents>>
    console,                \* what scrape_posts itself has printed about the seeding
    result,                 \* what scrape_posts returned
    response                \* the HTTP response of the endpoint

\* the state of the labeling script
scriptVars == <<pc, posts, df, detected, encoded, embeddings, todo, cluster_id, cluster_docs,
                docs, i, delay,
                outcomes, slept, lastEvent, delayed, topic_labels, topic_representatives,
                exc, csv, json, printed>>

\* the state of the scraper service
scraperVars == <<request, listing, spc, posts_data, files, collections, console, result,
                 response>>

vars == <<scriptVars, rep_max_posts, scraperVars>>

(* ------------------------------ bounds -------------------------------- *)

\* rows in the input file
MaxPosts == 3

\* the script sets NUM_TOPICS = 15 (model.py line 68); the model runs it with fewer
\* topics so that corpora both smaller and larger than it are explored
NUM_TOPICS == 2

\* embedding vectors are one coordinate in 0..MaxCoord
MaxCoord == 1

(* ------------------------- values of the script ----------------------- *)

\* pandas' missing value: an absent csv field, and a key Series.map does not find
NaN == <<"NaN">>

\* Python's None, as a function's result
None == <<"None">>

\* a call of generate_content, or a time.sleep of secs seconds
Event(kind, secs) == [kind |-> kind, secs |-> secs]

\* no exception
NoExc == "none"

\* no cluster id yet
NoCluster == -1

\* a file or printout that has not been written; Written(x) is one holding x
NotWritten == {}

Written(x) == {x}

HasColumn(d, col) == \A k \in DOMAIN d : col \in DOMAIN d[k]

retries == 5

delay0 == 5

InterCallDelay == 5

max_posts == 5

MaxDocsForGeminiAll == max_posts

MaxDocsForGemini == 2

SnippetLen == 300

Titles == {NaN, <<" ">>, <<"e">>, <<"1">>}

Selftexts == {NaN, <<"h">>}

Min(a, b) == IF a < b THEN a ELSE b

(* ------------------------- 1. load & preprocess ----------------------- *)

fillna(v) == IF v = NaN THEN <<>> ELSE v

\* df["title"].fillna("") + " " + df["selftext"].fillna("")
BuildText(row) == fillna(row.title) \o <<" ">> \o fillna(row.selftext)

RECURSIVE lstrip(_)
lstrip(s) == IF s # <<>> /\ Head(s) = " " THEN lstrip(Tail(s)) ELSE s

RECURSIVE rstrip(_)
rstrip(s) ==
    IF s # <<>> /\ s[Len(s)] = " " THEN rstrip(SubSeq(s, 1, Len(s) - 1)) ELSE s

\* str.strip()
strip(s) == rstrip(lstrip(s))

IsLetter(c) == c \in {"e", "h"}

\* langdetect raises LangDetectException("No features in text.") on a text without letters
DetectRaises(s) == ~ \E k \in DOMAIN s : IsLetter(s[k])

\* langdetect.detect with DetectorFactory.seed = 0: a function of the text
detect(s) == IF \E k \in DOMAIN s : s[k] = "h" THEN "hi" ELSE "en"

NeedsDetectNoStrip(x) == x # <<>>

\* the condition of: detect(x) if x.strip() else "unknown"
NeedsDetect(x) == strip(x) # <<>>

Language(x) == IF NeedsDetect(x) THEN detect(x) ELSE "unknown"

\* the rows apply() reaches: all of them, or those up to the first one detect raises on
RaisingRows(d) == {k \in DOMAIN d : NeedsDetect(d[k].text) /\ DetectRaises(d[k].text)}

ReachedRows(d) ==
    IF RaisingRows(d) = {} THEN DOMAIN d
    ELSE {k \in DOMAIN d : \A r \in RaisingRows(d) : k <= r}

RECURSIVE KeepRows(_, _)
KeepRows(s, keep) ==
    IF s = <<>> THEN <<>>
    ELSE IF Head(s).id \in keep THEN <<Head(s)>> \o KeepRows(Tail(s), keep)
    ELSE KeepRows(Tail(s), keep)

\* no request is being handled
ScraperIdle ==
    /\ request = [subreddit |-> <<>>, method |-> ""]
    /\ listing = <<>>
    /\ spc = "idle"
    /\ posts_data = <<>>
    /\ files = {}
    /\ collections = {}
    /\ console = <<>>
    /\ result = [success |-> FALSE, message |-> <<>>]
    /\ response = [status |-> 0, detail |-> <<>>]

Init ==
    /\ posts \in UNION {[1..n -> [title : Titles, selftext : Selftexts]] : n \in 0..MaxPosts}
    /\ df = [k \in DOMAIN posts |->
                [id |-> k, title |-> posts[k].title, selftext |-> posts[k].selftext,
                 permalink |-> k]]
    /\ pc = "text"
    /\ detected = {}
    /\ encoded = FALSE
    /\ embeddings = <<>>
    /\ todo = <<>>
    /\ cluster_id = NoCluster
    /\ cluster_docs = <<>>
    /\ docs = <<>>
    /\ i = 0
    /\ delay = 0
    /\ outcomes = <<>>
    /\ slept = <<>>
    /\ lastEvent = Event("none", 0)
    /\ delayed = {}
    /\ topic_labels = <<>>
    /\ topic_representatives = <<>>
    /\ exc = NoExc
    /\ csv = NotWritten
    /\ json = NotWritten
    /\ printed = NotWritten
    /\ rep_max_posts = max_posts
    /\ ScraperIdle

\* line 43
AddText ==
    /\ pc = "text"
    /\ UNCHANGED <<rep_max_posts, scraperVars>>
    /\ df' = [k \in DOMAIN df |-> [text |-> BuildText(df[k])] @@ df[k]]
    /\ pc' = "detect"
    /\ UNCHANGED <<posts, detected, encoded, embeddings, todo, cluster_id, cluster_docs,
                   docs, i, delay,
                   outcomes, slept, lastEvent, delayed, topic_labels,
                   topic_representatives, exc, csv, json, printed>>

\* line 46: apply() over the rows in order; an exception of detect leaves apply
DetectLanguage ==
    /\ pc = "detect"
    /\ UNCHANGED <<rep_max_posts, scraperVars>>
    /\ detected' = {df[k].id : k \in {r \in ReachedRows(df) : NeedsDetect(df[r].text)}}
    /\ IF RaisingRows(df) = {}
       THEN /\ df' = [k \in DOMAIN df |->
                        [language |-> Language(df[k].text)] @@ df[k]]
            /\ pc' = "filter"
            /\ exc' = exc
       ELSE /\ df' = df
            /\ pc' = "crashed"
            /\ exc' = "LangDetectException"
    /\ UNCHANGED <<posts, encoded, embeddings, todo, cluster_id, cluster_docs,
                   docs, i, delay,
                   outcomes, slept, lastEvent, delayed, topic_labels,
                   topic_representatives, csv, json, printed>>

\* line 47
FilterEnglish ==
    /\ pc = "filter"
    /\ UNCHANGED <<rep_max_posts, scraperVars>>
    /\ df' = KeepRows(df, {df[k].id : k \in {r \in DOMAIN df : df[r].language = "en"}})
    /\ pc' = "nlp"
    /\ UNCHANGED <<posts, detected, encoded, embeddings, todo, cluster_id, cluster_docs,
                   docs, i, delay, outcomes, slept, lastEvent, delayed, topic_labels,
                   topic_representatives, exc, csv, json, printed>>

\* lines 50-56: the tokens and entities columns, which nothing later reads
Annotate ==
    /\ pc = "nlp"
    /\ UNCHANGED <<rep_max_posts, scraperVars>>
    /\ df' = [k \in DOMAIN df |-> [tokens |-> "tokens", entities |-> "entities"] @@ df[k]]
    /\ pc' = "encode"
    /\ UNCHANGED <<posts, detected, encoded, embeddings, todo, cluster_id, cluster_docs,
                   docs, i, delay, outcomes, slept, lastEvent, delayed, topic_labels,
                   topic_representatives, exc, csv, json, printed>>

(* ----------------------------- 2. embeddings -------------------------- *)

\* lines 61-62: the encoder is a black box; one vector per text, in order
Encode ==
    /\ pc = "encode"
    /\ UNCHANGED <<rep_max_posts, scraperVars>>
    /\ embeddings' \in [DOMAIN df -> 0..MaxCoord]
    /\ encoded' = TRUE
    /\ pc' = "cluster"
    /\ UNCHANGED <<posts, df, detected, todo, cluster_id, cluster_docs,
                   docs, i, delay, outcomes, slept, lastEvent, delayed, topic_labels,
                   topic_representatives, exc, csv, json, printed>>

(* ----------------------------- 3. clustering -------------------------- *)

KMeansAcceptsAny(n) == TRUE

\* sklearn's KMeans raises ValueError when n_samples < n_clusters
KMeansAccepts(n) == n >= NUM_TOPICS

\* lines 68-70: fit_predict is a black box giving every row a topic in 0..NUM_TOPICS-1
Cluster ==
    /\ pc = "cluster"
    /\ UNCHANGED <<rep_max_posts, scraperVars>>
    /\ IF KMeansAccepts(Len(df))
       THEN /\ \E a \in [DOMAIN df -> 0..(NUM_TOPICS - 1)] :
                  df' = [k \in DOMAIN df |-> [topic |-> a[k]] @@ df[k]]
            /\ pc' = "labels"
            /\ exc' = exc
       ELSE /\ df' = df
            /\ pc' = "crashed"
            /\ exc' = "ValueError"
    /\ UNCHANGED <<posts, detected, encoded, embeddings, todo, cluster_id, cluster_docs,
                   docs, i, delay, outcomes, slept, lastEvent, delayed, topic_labels,
                   topic_representatives, csv, json, printed>>

(* ------------------------ 4. representative posts --------------------- *)

Abs(x) == IF x < 0 THEN -x ELSE x

RECURSIVE Sum(_, _)
Sum(f, S) == IF S = {} THEN 0 ELSE LET x == CHOOSE x \in S : TRUE IN f[x] + Sum(f, S \ {x})

\* the rows of the mask df["topic"] == cluster_id, as positions of df
Members(c, d) == {k \in DOMAIN d : d[k].topic = c}

\* |S| times the distance of row k's vector to the mean of the vectors of S
Distance(k, S, emb) == Abs(Cardinality(S) * emb[k] - Sum(emb, S))

RECURSIVE ArgSortByRow(_, _, _)
ArgSortByRow(rest, S, emb) ==
    IF rest = {} THEN <<>>
    ELSE LET k == CHOOSE k \in rest : \A o \in rest : k <= o
         IN  <<k>> \o ArgSortByRow(rest \ {k}, S, emb)

\* np.argsort of the distances; equal distances stay in row order
RECURSIVE ArgSort(_, _, _)
ArgSort(rest, S, emb) ==
    IF rest = {} THEN <<>>
    ELSE LET k == CHOOSE k \in rest : \A o \in rest :
                     \/ Distance(k, S, emb) < Distance(o, S, emb)
                     \/ (Distance(k, S, emb) = Distance(o, S, emb) /\ k <= o)
         IN  <<k>> \o ArgSort(rest \ {k}, S, emb)

\* s[:n]
Take(s, n) == SubSeq(s, 1, Min(Len(s), n))

get_representative_posts_untrimmed(c, emb, d, maxp) ==
    IF Members(c, d) = {} THEN <<>>
    ELSE LET sorted_idx == ArgSort(Members(c, d), Members(c, d), emb)
             first == SubSeq(sorted_idx, 1, Min(Len(sorted_idx), maxp))
         IN  [n \in DOMAIN first |->
                 [text |-> d[first[n]].text,
                  permalink |-> <<"https://reddit.com", d[first[n]].permalink>>]]

get_representative_posts(c, emb, d, maxp) ==
    IF Members(c, d) = {} THEN <<>>
    ELSE LET sorted_idx == ArgSort(Members(c, d), Members(c, d), emb)
             first == Take(sorted_idx, maxp)
         IN  [n \in DOMAIN first |->
                 [text |-> Take(d[first[n]].text, SnippetLen),
                  permalink |-> <<"https://reddit.com", d[first[n]].permalink>>]]

(* ------------------------------ 5. label_topic ------------------------ *)

Digit(c) == <<"0", "1", "2", "3", "4", "5">>[c + 1]

\* response.text of a successful generate_content for cluster c
ResponseText(c) == <<" ", "T", Digit(c), " ">>

\* what one generate_content call (with reading response.text) does
Outcomes == {"ok", "ResourceExhausted", "Exception"}

IsRateLimitAny(o) == o # "ok"

\* except exceptions.ResourceExhausted
IsRateLimit(o) == o = "ResourceExhausted"

CanRetryAlways(k) == k < retries

\* if i < retries - 1
CanRetry(k) == k < retries - 1

NextDelayAdd(d) == d + delay0

\* delay *= 2
NextDelay(d) == d * 2

RECURSIVE SortedSeqDescending(_)
SortedSeqDescending(S) ==
    IF S = {} THEN <<>>
    ELSE LET m == CHOOSE m \in S : \A o \in S : m >= o
         IN  <<m>> \o SortedSeqDescending(S \ {m})

RECURSIVE SortedSeq(_)
SortedSeq(S) ==
    IF S = {} THEN <<>>
    ELSE LET m == CHOOSE m \in S : \A o \in S : m <= o IN <<m>> \o SortedSeq(S \ {m})

\* lines 113-116: the empty maps, and the clusters the loop will visit
InitLabeling ==
    /\ pc = "labels"
    /\ UNCHANGED <<rep_max_posts, scraperVars>>
    /\ topic_labels' = <<>>
    /\ topic_representatives' = <<>>
    /\ todo' = SortedSeq({df[k].topic : k \in DOMAIN df})
    /\ pc' = "loop"
    /\ UNCHANGED <<posts, df, detected, encoded, embeddings, cluster_id, cluster_docs,
                   docs, i, delay, outcomes, slept, lastEvent, delayed, exc, csv, json,
                   printed>>

\* lines 116-119 and 81-93: the next cluster, its documents, and label_topic entered
EnterLabelTopic ==
    /\ pc = "loop"
    /\ UNCHANGED <<rep_max_posts, scraperVars>>
    /\ todo # <<>>
    /\ cluster_id' = Head(todo)
    /\ todo' = Tail(todo)
    /\ cluster_docs' = get_representative_posts(Head(todo), embeddings, df, max_posts)
    /\ docs' = Take(cluster_docs', MaxDocsForGemini)
    /\ i' = 0
    /\ delay' = delay0
    /\ outcomes' = <<>>
    /\ slept' = <<>>
    /\ pc' = "attempt"
    /\ UNCHANGED <<posts, df, detected, encoded, embeddings, lastEvent, delayed,
                   topic_labels, topic_representatives, exc, csv, json, printed>>

\* lines 119-120, once label_topic has returned label
StoreLabel(label) ==
    /\ topic_labels' = (cluster_id :> label) @@ topic_labels
    /\ topic_representatives' = (cluster_id :> cluster_docs) @@ topic_representatives
    /\ pc' = "sleep"

\* lines 97-98: the service answers
GenerateOk ==
    /\ pc = "attempt"
    /\ UNCHANGED <<rep_max_posts, scraperVars>>
    /\ outcomes' = Append(outcomes, "ok")
    /\ lastEvent' = Event("generate", 0)
    /\ StoreLabel(strip(ResponseText(cluster_id)))
    /\ UNCHANGED <<posts, df, detected, encoded, embeddings, todo, cluster_id,
                   cluster_docs, docs, i, delay, slept, delayed, exc, csv, json, printed>>

\* lines 97, 99-105 (or 106-108 when the handler of 99 does not take the exception)
GenerateFails ==
    /\ pc = "attempt"
    /\ UNCHANGED <<rep_max_posts, scraperVars>>
    /\ \E o \in Outcomes \ {"ok"} :
          /\ outcomes' = Append(outcomes, o)
          /\ IF IsRateLimit(o) /\ CanRetry(i)
             THEN \* sleep, double the delay, next iteration of range(retries)
                  /\ slept' = Append(slept, delay)
                  /\ lastEvent' = Event("backoff", delay)
                  /\ delay' = NextDelay(delay)
                  /\ i' = i + 1
                  /\ exc' = exc
                  /\ IF i + 1 < retries
                     THEN /\ pc' = "attempt"
                          /\ UNCHANGED <<topic_labels, topic_representatives>>
                     ELSE \* range(retries) is exhausted: the function returns None
                          StoreLabel(None)
             ELSE \* raise e
                  /\ lastEvent' = Event("generate", 0)
                  /\ exc' = o
                  /\ pc' = "crashed"
                  /\ UNCHANGED <<slept, delay, i, topic_labels, topic_representatives>>
    /\ UNCHANGED <<posts, df, detected, encoded, embeddings, todo, cluster_id,
                   cluster_docs, docs, delayed, csv, json, printed>>

(* ----------------------------- 6. label clusters ---------------------- *)

\* line 121
InterCallSleep ==
    /\ pc = "sleep"
    /\ UNCHANGED <<rep_max_posts, scraperVars>>
    /\ lastEvent' = Event("intercall", InterCallDelay)
    /\ delayed' = delayed \cup {cluster_id}
    /\ pc' = "loop"
    /\ UNCHANGED <<posts, df, detected, encoded, embeddings, todo, cluster_id,
                   cluster_docs, docs, i, delay, outcomes, slept, topic_labels,
                   topic_representatives, exc, csv, json, printed>>

\* Series.map(dict): the value of the key, NaN for a key the dict does not have
MapLabel(t, labels) == IF t \in DOMAIN labels THEN labels[t] ELSE NaN

\* line 123, when the loop has visited every cluster
Assemble ==
    /\ pc = "loop"
    /\ UNCHANGED <<rep_max_posts, scraperVars>>
    /\ todo = <<>>
    /\ df' = [k \in DOMAIN df |->
                 [topic_label |-> MapLabel(df[k].topic, topic_labels)] @@ df[k]]
    /\ pc' = "to_csv"
    /\ UNCHANGED <<posts, detected, encoded, embeddings, todo, cluster_id, cluster_docs,
                   docs, i, delay, outcomes, slept, lastEvent, delayed, topic_labels,
                   topic_representatives, exc, csv, json, printed>>

(* ------------------------------ 7. save results ----------------------- *)

\* line 128
ToCsv ==
    /\ pc = "to_csv"
    /\ UNCHANGED <<rep_max_posts, scraperVars>>
    /\ csv' = Written(df)
    /\ pc' = "dump_json"
    /\ UNCHANGED <<posts, df, detected, encoded, embeddings, todo, cluster_id,
                   cluster_docs, docs, i, delay, outcomes, slept, lastEvent, delayed,
                   topic_labels, topic_representatives, exc, json, printed>>

\* lines 133-137
DumpJson ==
    /\ pc = "dump_json"
    /\ UNCHANGED <<rep_max_posts, scraperVars>>
    /\ json' = Written(topic_representatives)
    /\ pc' = "print"
    /\ UNCHANGED <<posts, df, detected, encoded, embeddings, todo, cluster_id,
                   cluster_docs, docs, i, delay, outcomes, slept, lastEvent, delayed,
                   topic_labels, topic_representatives, exc, csv, printed>>

(* --------------------------- 8. model outputs ------------------------- *)

\* lines 144-157: a line "Cluster c: label" for every key of topic_labels
PrintOutputs ==
    /\ pc = "print"
    /\ UNCHANGED <<rep_max_posts, scraperVars>>
    /\ printed' = Written(topic_labels)
    /\ pc' = "done"
    /\ UNCHANGED <<posts, df, detected, encoded, embeddings, todo, cluster_id,
                   cluster_docs, docs, i, delay, outcomes, slept, lastEvent, delayed,
                   topic_labels, topic_representatives, exc, csv, json>>

Next ==
    \/ AddText
    \/ DetectLanguage
    \/ FilterEnglish
    \/ Annotate
    \/ Encode
    \/ Cluster
    \/ InitLabeling
    \/ EnterLabelTopic
    \/ GenerateOk
    \/ GenerateFails
    \/ InterCallSleep
    \/ Assemble
    \/ ToCsv
    \/ DumpJson
    \/ PrintOutputs

Spec == Init /\ [][Next]_vars

(* ------------- get_representative_posts, called on its own ------------- *)

\* rows of the clustered frame handed to get_representative_posts
MaxRepPosts == 3

\* their vectors: one coordinate each
RepCoords == {0, 1, 3}

\* a text longer than the snippet: SnippetLen times "e", then "h", "h"
LongText == [k \in 1..(SnippetLen + 2) |-> IF k > SnippetLen THEN "h" ELSE "e"]

RepTexts == {<<"e", " ">>, LongText}

RepMaxPosts == {1, 2, max_posts}

InitRep ==
    /\ pc = "rep_call"
    /\ posts = <<>>
    /\ df \in UNION {[1..n -> [text : RepTexts, topic : {0, 1}]] : n \in 0..MaxRepPosts}
    /\ embeddings \in [DOMAIN df -> RepCoords]
    /\ cluster_id = 0
    /\ rep_max_posts \in RepMaxPosts
    /\ detected = {}
    /\ encoded = TRUE
    /\ todo = <<>>
    /\ cluster_docs = <<>>
    /\ docs = <<>>
    /\ i = 0
    /\ delay = 0
    /\ outcomes = <<>>
    /\ slept = <<>>
    /\ lastEvent = Event("none", 0)
    /\ delayed = {}
    /\ topic_labels = <<>>
    /\ topic_representatives = <<>>
    /\ exc = NoExc
    /\ csv = NotWritten
    /\ json = NotWritten
    /\ printed = NotWritten
    /\ ScraperIdle

\* the frame's permalink column: row k has permalink k
WithPermalink(d) == [k \in DOMAIN d |-> [permalink |-> k] @@ d[k]]

\* lines 18-36: one call get_representative_posts(cluster_id, embeddings, df, max_posts)
RepCall ==
    /\ pc = "rep_call"
    /\ cluster_docs' =
          get_representative_posts(cluster_id, embeddings, WithPermalink(df), rep_max_posts)
    /\ pc' = "rep_done"
    /\ UNCHANGED <<posts, df, detected, encoded, embeddings, todo, cluster_id, docs, i,
                   delay, outcomes, slept, lastEvent, delayed, topic_labels,
                   topic_representatives, exc, csv, json, printed, rep_max_posts,
                   scraperVars>>

NextRep == RepCall

SpecRep == InitRep /\ [][NextRep]_vars

(* ---------------- the scraper service: GET /api/v1/scrape -------------- *)

\* posts the Reddit listing yields
MaxListing == 2

\* time.time() when scrape_posts computes six_months_ago, in seconds
Now == 20000000

\* 6 months in seconds
SixMonths == 6 * 30 * 24 * 60 * 60

six_months_ago == Now - SixMonths

CreatedChoices == {six_months_ago - 1, six_months_ago, Now - 1}

SubredditNames == {<<"P">>, <<"a", "+", "b">>}

\* the listing methods of the four branches, and one that is none of them
Methods == {"hot", "new", "top", "rising", "best"}

ValidMethods == {"hot", "new", "top", "rising"}

LowerChar(c) == IF c = "P" THEN "p" ELSE c

\* str.lower()
lower(name) == [k \in DOMAIN name |-> LowerChar(name[k])]

\* str.replace('+', '_')
replace_plus(name) == [k \in DOMAIN name |-> IF name[k] = "+" THEN "_" ELSE name[k]]

\* reddit_controller.py line 80
ScrapeFileName(subreddit_name, method) ==
    <<"reddit_posts_">> \o replace_plus(lower(subreddit_name)) \o <<"_", method, ".json">>

\* seedposts.py line 11
SeedFileName(subreddit_name, method) ==
    <<"reddit_posts_">> \o lower(subreddit_name) \o <<"_", method, ".json">>

\* seedposts.py line 22
CollectionName(subreddit_name) == lower(subreddit_name) \o <<"Data">>

Exists(dir, name) == \E f \in dir : f[1] = name

Content(dir, name) == (CHOOSE f \in dir : f[1] = name)[2]

\* open(name, "w") and dump, or a collection given new documents
Put(dir, name, content) == {f \in dir : f[1] # name} \cup {<<name, content>>}

\* os.remove
Remove(dir, name) == {f \in dir : f[1] # name}

\* lines 64-77: the posts appended until the first one older than six months
RECURSIVE Collect(_, _, _)
Collect(lst, k, subreddit_name) ==
    IF k > Len(lst) \/ lst[k] < six_months_ago THEN <<>>
    ELSE <<[permalink |-> k, created_utc |-> lst[k], subreddit |-> lower(subreddit_name)]>>
         \o Collect(lst, k + 1, subreddit_name)

\* RedditPost.from_dict(post_data).to_dict()
ToDocument(post_data) == [created_at |-> "datetime.now()"] @@ post_data

InitScrape ==
    /\ pc = "idle"
    /\ posts = <<>>
    /\ df = <<>>
    /\ detected = {}
    /\ encoded = FALSE
    /\ embeddings = <<>>
    /\ todo = <<>>
    /\ cluster_id = NoCluster
    /\ cluster_docs = <<>>
    /\ docs = <<>>
    /\ i = 0
    /\ delay = 0
    /\ outcomes = <<>>
    /\ slept = <<>>
    /\ lastEvent = Event("none", 0)
    /\ delayed = {}
    /\ topic_labels = <<>>
    /\ topic_representatives = <<>>
    /\ exc = NoExc
    /\ csv = NotWritten
    /\ json = NotWritten
    /\ printed = NotWritten
    /\ rep_max_posts = max_posts
    /\ request \in [subreddit : SubredditNames, method : Methods]
    /\ listing \in UNION {[1..n -> CreatedChoices] : n \in 0..MaxListing}
    /\ spc = "received"
    /\ posts_data = <<>>
    /\ files = {}
    /\ collections = {}
    /\ console = <<>>
    /\ result = [success |-> FALSE, message |-> <<>>]
    /\ response = [status |-> 0, detail |-> <<>>]

\* lines 109-114
Failure(e) == [success |-> FALSE, message |-> <<"Error scraping posts: ", e>>]

\* reddit_controller.py lines 41-77: the listing is chosen and read; an exception of
\* the Reddit client, or the ValueError of line 58, goes to the handler of line 109
FetchPosts ==
    /\ spc = "received"
    /\ \E api \in {"ok", "RequestException"} :
          IF request.method \notin ValidMethods
          THEN /\ result' = Failure("Invalid listing method")
               /\ spc' = "respond"
               /\ UNCHANGED posts_data
          ELSE IF api # "ok"
          THEN /\ result' = Failure(api)
               /\ spc' = "respond"
               /\ UNCHANGED posts_data
          ELSE /\ posts_data' = Collect(listing, 1, request.subreddit)
               /\ spc' = "save"
               /\ UNCHANGED result
    /\ UNCHANGED <<scriptVars, rep_max_posts, request, listing, files, collections,
                   console, response>>

\* reddit_controller.py lines 80-87
SaveJson ==
    /\ spc = "save"
    /\ files' = Put(files, ScrapeFileName(request.subreddit, request.method), posts_data)
    /\ spc' = "seed"
    /\ UNCHANGED <<scriptVars, rep_max_posts, request, listing, posts_data, collections,
                   console, result, response>>

\* reddit_controller.py lines 90-107, with seedposts (seedposts.py lines 7-54) inside
SeedAndReturn ==
    /\ spc = "seed"
    /\ LET name == SeedFileName(request.subreddit, request.method)
           coll == CollectionName(request.subreddit)
       IN  IF ~Exists(files, name)
           THEN \* seedposts prints that the file is not found, and returns
                /\ console' = console \o <<"JSON file not found",
                                           "Successfully seeded data to MongoDB">>
                /\ UNCHANGED <<files, collections>>
           ELSE \E db \in {"ok", "ServerSelectionTimeoutError"} :
                   IF db # "ok"
                   THEN \* get_collection raises; seedposts re-raises
                        /\ console' = console \o <<"Error seeding posts",
                                                   "Error seeding to MongoDB",
                                                   "Posts saved to JSON file only">>
                        /\ UNCHANGED <<files, collections>>
                   ELSE LET loaded == Content(files, name)
                            reddit_posts == [k \in DOMAIN loaded |-> ToDocument(loaded[k])]
                        IN  /\ collections' = Put(collections, coll, reddit_posts)
                            /\ IF reddit_posts # <<>>
                               THEN /\ files' = Remove(files, name)
                                    /\ console' = console \o
                                           <<"Successfully seeded posts",
                                             "Successfully seeded data to MongoDB">>
                               ELSE /\ files' = files
                                    /\ console' = console \o
                                           <<"No valid posts to seed",
                                             "Successfully seeded data to MongoDB">>
    /\ result' = [success |-> TRUE, message |-> <<"Successfully scraped posts">>]
    /\ spc' = "respond"
    /\ UNCHANGED <<scriptVars, rep_max_posts, request, listing, posts_data, response>>

\* str() of an HTTPException
HTTPExceptionStr(status_code, detail) == <<status_code, ": ", detail>>

\* scrape_routes.py lines 27-44: the HTTPException of line 41 is raised inside the try
\* whose handler, line 43, catches every Exception
Respond ==
    /\ spc = "respond"
    /\ IF result.success
       THEN response' = [status |-> 200, detail |-> result.message]
       ELSE response' = [status |-> 500,
                         detail |-> <<"Internal server error: ",
                                      HTTPExceptionStr("400", result.message)>>]
    /\ spc' = "sent"
    /\ UNCHANGED <<scriptVars, rep_max_posts, request, listing, posts_data, files,
                   collections, console, result>>

NextScrape ==
    \/ FetchPosts
    \/ SaveJson
    \/ SeedAndReturn
    \/ Respond

SpecScrape == InitScrape /\ [][NextScrape]_vars

(* ============================== properties ============================ *)

Last(s) == s[Len(s)]

RECURSIVE SeqSum(_)
SeqSum(s) == IF s = <<>> THEN 0 ELSE Head(s) + SeqSum(Tail(s))

\* the exceptions label_topic raises
LabelFailures == {"ResourceExhausted", "Exception"}

\* the cluster whose label_topic call raised
Failed == IF exc \in LabelFailures THEN {cluster_id} ELSE {}

\* the clusters whose label_topic call has ended, by returning or by raising
Ended == DOMAIN topic_labels \cup Failed

\* the cluster ids present in the clustered frame
Topics == {df[k].topic : k \in {r \in DOMAIN df : "topic" \in DOMAIN df[r]}}

\* the first n generate_content calls of the current label_topic were all rate-limited
RateLimitedFirst(n) ==
    /\ n <= Len(outcomes)
    /\ \A k \in 1..n : outcomes[k] = "ResourceExhausted"

\* C1: when the service rate-limits the first n attempts (n <= 4) and answers attempt
\* n+1, label_topic returns that answer's label after n+1 calls and no further one, and
\* its waits are the first n of 5, 10, 20, 40 seconds, 5*(2^n - 1) seconds in all.
C1_BackoffSchedule ==
    \A n \in 0..4 :
        (RateLimitedFirst(n) /\ Len(outcomes) > n /\ outcomes[n + 1] = "ok") =>
            /\ Len(outcomes) = n + 1
            /\ pc # "attempt"
            /\ cluster_id \in DOMAIN topic_labels
            /\ topic_labels[cluster_id] = <<"T", Digit(cluster_id)>>
            /\ slept = SubSeq(<<5, 10, 20, 40>>, 1, n)
            /\ SeqSum(slept) = 5 * (2 ^ n - 1)

C1_Witness ==
    /\ pc = "sleep"
    /\ outcomes = <<"ResourceExhausted", "ResourceExhausted", "ResourceExhausted",
                    "ResourceExhausted", "ok">>
    /\ SeqSum(slept) = 75

\* C2: label_topic never calls the service a 6th time, and when all 5 calls were
\* rate-limited the rate-limit error reaches the caller, with no wait after the 5th
\* call and no label stored for the topic.
C2_RetryCap ==
    /\ Len(outcomes) <= 5
    /\ (Len(outcomes) = 5 /\ RateLimitedFirst(5)) =>
            /\ pc = "crashed"
            /\ exc = "ResourceExhausted"
            /\ Len(slept) = 4
            /\ cluster_id \notin DOMAIN topic_labels

C2_Witness ==
    /\ Len(outcomes) = 5
    /\ RateLimitedFirst(5)
    /\ exc = "ResourceExhausted"

\* C3: a failure of the service that is not a rate-limit signal, at whatever attempt,
\* is the last call of label_topic: the exception reaches the caller, no wait follows
\* it (the waits are those of the rate-limited calls before it) and no label is stored.
C3_OtherFailureFatal ==
    \A k \in DOMAIN outcomes :
        outcomes[k] = "Exception" =>
            /\ k = Len(outcomes)
            /\ pc = "crashed"
            /\ exc = "Exception"
            /\ RateLimitedFirst(k - 1)
            /\ Len(slept) = k - 1
            /\ cluster_id \notin DOMAIN topic_labels

C3_Witness ==
    /\ Len(outcomes) = 3
    /\ outcomes[3] = "Exception"
    /\ pc = "crashed"
    /\ slept = <<5, 10>>

\* C4: a run in which a topic's label call failed still visits the remaining topics
\* and reaches the assembly step.
C4_FailureFatalForTopicOnly ==
    (pc \in {"done", "crashed"} /\ Failed # {}) =>
        /\ Ended = Topics
        /\ HasColumn(df, "topic_label")

\* C5: once the label call of a topic that is not the last one has ended, by returning
\* or by raising, the inter-call delay is slept before anything else happens.
C5_DelayRegardlessOfOutcome ==
    \A c \in Ended :
        ((\E later \in Topics : later > c) /\ ~(pc = "sleep" /\ c = cluster_id)) =>
            c \in delayed

\* C6: when the labeling has ended, every post has the topic_label field: the label of
\* its topic when the topic has one, the sentinel NaN when it has none.
C6_SentinelLabel ==
    (pc = "done" \/ Failed # {}) =>
        \A k \in DOMAIN df :
            /\ "topic_label" \in DOMAIN df[k]
            /\ df[k].topic \in DOMAIN topic_labels =>
                   df[k].topic_label = topic_labels[df[k].topic]
            /\ df[k].topic \notin DOMAIN topic_labels => df[k].topic_label = NaN

\* C7: when the labeling has ended, the run has printed a summary with an entry for
\* every topic: the topic's label, or the failure of its label call.
C7_PerTopicSummary ==
    (pc = "done" \/ Failed # {}) =>
        /\ printed # NotWritten
        /\ \A summary \in printed :
              /\ DOMAIN summary = Topics
              /\ \A c \in Topics :
                    \/ c \in DOMAIN topic_labels /\ summary[c] = topic_labels[c]
                    \/ c \in Failed /\ summary[c] = <<exc>>

\* the stripped text of input row k is not empty and the detector raises on it
DetectionFails(k) ==
    /\ strip(BuildText(posts[k])) # <<>>
    /\ DetectRaises(BuildText(posts[k]))

\* C8: a post the detector raises on never ends the run: once line 46 has run the post
\* is tagged "unknown", and the filter then drops it.
C8_DetectionFailureTolerated ==
    pc \notin {"text", "detect"} =>
        /\ exc # "LangDetectException"
        /\ \A k \in DOMAIN posts :
              DetectionFails(k) =>
                  /\ pc = "filter" => df[k].language = "unknown"
                  /\ pc # "filter" => \A r \in DOMAIN df : df[r].id # k

\* C9: the detector is invoked only on rows whose text, stripped, is not empty; a row
\* without title and body is tagged "unknown" without the detector; and every row kept
\* by the filter has language "en".
C9_DetectorOnlyOnNonEmpty ==
    /\ \A k \in detected : strip(BuildText(posts[k])) # <<>>
    /\ pc = "filter" =>
          \A k \in DOMAIN posts :
              (posts[k].title = NaN /\ posts[k].selftext = NaN) =>
                  (df[k].language = "unknown" /\ k \notin detected)
    /\ (pc \notin {"text", "detect", "filter"} /\ exc # "LangDetectException") =>
          \A r \in DOMAIN df : df[r].language = "en"

C9_Witness ==
    /\ pc = "nlp"
    /\ Len(df) = 1
    /\ detected # {}
    /\ \E k \in DOMAIN posts :
          posts[k].title = NaN /\ posts[k].selftext = NaN /\ k \notin detected
    /\ \E k \in detected : \A r \in DOMAIN df : df[r].id # k

\* C10 as stated: the error of K greater than the number of vectors is raised at
\* startup, before the detector or the encoder has run, and no label call is made and
\* nothing is written.
C10_FatalAtStartup ==
    exc = "ValueError" =>
        /\ detected = {}
        /\ ~encoded
        /\ lastEvent.kind = "none"
        /\ csv = NotWritten /\ json = NotWritten /\ printed = NotWritten

\* C10, amended: a run whose filtered corpus has fewer vectors than NUM_TOPICS never gets
\* past the clustering step: it ends there with the ValueError of KMeans, after the
\* language filter and the encoder have run; no label call is made and nothing is written.
C10_FatalAtClustering ==
    /\ (Len(df) < NUM_TOPICS /\ encoded) => pc \in {"cluster", "crashed"}
    /\ (pc = "crashed" /\ Len(df) < NUM_TOPICS /\ encoded) => exc = "ValueError"
    /\ exc = "ValueError" =>
            /\ pc = "crashed"
            /\ Len(df) < NUM_TOPICS
            /\ encoded
            /\ Len(embeddings) = Len(df)
            /\ \A r \in DOMAIN df : df[r].language = "en"
            /\ lastEvent.kind = "none"
            /\ outcomes = <<>>
            /\ topic_labels = <<>>
            /\ csv = NotWritten /\ json = NotWritten /\ printed = NotWritten

C10_Witness ==
    /\ exc = "ValueError"
    /\ pc = "crashed"
    /\ Len(df) = 1
    /\ detected # {}
    /\ encoded

\* the members of the topic get_representative_posts was called for
RepMembers == {k \in DOMAIN df : df[k].topic = cluster_id}

\* the row the n-th returned entry was taken from, by its permalink
RepRow(n) == cluster_docs[n].permalink[2]

\* the rows returned
RepReturned == {RepRow(n) : n \in DOMAIN cluster_docs}

\* the squared Euclidean distance of row k's vector to the mean of the members'
\* vectors, times the square of the number of members
RepDist2(k) ==
    LET total == SeqSum([m \in DOMAIN df |-> IF m \in RepMembers THEN embeddings[m] ELSE 0])
        diff == Cardinality(RepMembers) * embeddings[k] - total
    IN  diff * diff

\* C11: for a topic with N members get_representative_posts returns min(N, max_posts)
\* entries, each of another member, in non-decreasing distance to the centroid, none
\* of them farther from it than a member not returned; for N = 0 it returns the empty list.
C11_NearestToCentroid ==
    pc = "rep_done" =>
        /\ exc = NoExc
        /\ Len(cluster_docs) = Min(Cardinality(RepMembers), rep_max_posts)
        /\ RepReturned \subseteq RepMembers
        /\ Cardinality(RepReturned) = Len(cluster_docs)
        /\ \A n, m \in DOMAIN cluster_docs :
              n < m => RepDist2(RepRow(n)) <= RepDist2(RepRow(m))
        /\ \A r \in RepReturned : \A k \in RepMembers \ RepReturned :
              RepDist2(r) <= RepDist2(k)
        /\ RepMembers = {} => cluster_docs = <<>>

C11_Witness ==
    /\ pc = "rep_done"
    /\ Cardinality(RepMembers) = 3
    /\ rep_max_posts = 2
    /\ Len(cluster_docs) = 2
    /\ RepRow(1) = 3
    /\ \E k \in RepMembers \ RepReturned : RepDist2(k) > RepDist2(RepRow(2))
    /\ RepDist2(RepRow(2)) > RepDist2(RepRow(1))

\* C12: every entry of a representative set, in the full set that is stored and in the
\* leading entries that are sent to the labeler, has a text of at most 300 characters
\* that is a prefix of the text of the member it was taken from.
C12_SnippetIsBoundedPrefix ==
    pc = "rep_done" =>
        \A sent \in {cluster_docs, Take(cluster_docs, MaxDocsForGemini)} :
            \A n \in DOMAIN sent :
                /\ Len(sent[n].text) <= 300
                /\ Len(sent[n].text) <= Len(df[sent[n].permalink[2]].text)
                /\ sent[n].text = SubSeq(df[sent[n].permalink[2]].text, 1, Len(sent[n].text))

C12_Witness ==
    /\ pc = "rep_done"
    /\ \E n \in DOMAIN cluster_docs :
          /\ Len(cluster_docs[n].text) = 300
          /\ Len(df[RepRow(n)].text) = 302
    /\ \E n \in DOMAIN cluster_docs : Len(cluster_docs[n].text) = 2

\* the representative set of topic c: up to 5 members, nearest to the centroid first
RepSet(c) == get_representative_posts(c, embeddings, df, 5)

\* C13: the label call of a topic receives at most 2 entries, the first min(2, size)
\* of the topic's representative set in its order, for the whole of the call; when the
\* call has returned the map gets the topic's whole set, of up to 5 entries, and keeps it.
C13_LabelerGetsFirstTwo ==
    /\ [][cluster_id' # cluster_id =>
            /\ Len(docs') <= 2
            /\ Len(docs') = Min(2, Len(RepSet(cluster_id')))
            /\ \A n \in DOMAIN docs' : docs'[n] = RepSet(cluster_id')[n]]_vars
    /\ [][cluster_id' = cluster_id => docs' = docs]_vars
    /\ [][topic_representatives' # topic_representatives =>
            /\ DOMAIN topic_representatives' = DOMAIN topic_representatives \cup {cluster_id}
            /\ topic_representatives'[cluster_id] = RepSet(cluster_id)
            /\ Len(RepSet(cluster_id)) = Min(Cardinality(Members(cluster_id, df)), 5)
            /\ \A c \in DOMAIN topic_representatives :
                  topic_representatives'[c] = topic_representatives[c]]_vars
    /\ [](DOMAIN topic_representatives = DOMAIN topic_labels)

C13_Witness ==
    /\ pc = "sleep"
    /\ Len(topic_representatives[cluster_id]) = 3
    /\ Len(docs) = 2
    /\ docs[1].permalink[2] = 2
    /\ docs[2].permalink[2] = 3

\* C14: the topics are labeled one after the other in ascending id: a topic's call
\* starts only when every call before it has returned, after all of that call's
\* backoff waits; the service is called only for the current topic, which has no label
\* yet; and a run that gets past the loop has labeled every topic.
C14_StrictlySequential ==
    /\ [][cluster_id' # cluster_id =>
            /\ cluster_id' > cluster_id
            /\ \A c \in Topics : c < cluster_id' <=> c \in DOMAIN topic_labels
            /\ cluster_id # NoCluster =>
                  /\ Last(outcomes) = "ok"
                  /\ Len(slept) = Len(outcomes) - 1
                  /\ lastEvent = Event("intercall", 5)
            /\ outcomes' = <<>>
            /\ slept' = <<>>]_vars
    /\ [][outcomes' # outcomes /\ outcomes' # <<>> =>
            /\ cluster_id' = cluster_id
            /\ cluster_id \notin DOMAIN topic_labels
            /\ Len(slept) = Len(outcomes)]_vars
    /\ [](pc \in {"to_csv", "dump_json", "print", "done"} =>
            DOMAIN topic_labels = Topics)

C14_Witness ==
    /\ pc = "attempt"
    /\ cluster_id = 1
    /\ 0 \in DOMAIN topic_labels
    /\ outcomes = <<"ResourceExhausted", "ResourceExhausted">>
    /\ slept = <<5, 10>>

(* ------------------------------ the scraper ----------------------------- *)

Scraped == spc \in {"save", "seed"} \/ (spc \in {"respond", "sent"} /\ result.success)

\* the posts of the listing created within the last six months
WithinSixMonths == {k \in DOMAIN listing : listing[k] >= six_months_ago}

\* C15: scrape_posts with 'hot', 'new' or 'rising' returns every post of the listing
\* created within the last six months and none older, in whatever order the listing
\* yields them, an older post before a newer one included.
C15_AllRecentPostsScraped ==
    (Scraped /\ request.method \in {"hot", "new", "rising"})
        => /\ {posts_data[k].permalink : k \in DOMAIN posts_data} = WithinSixMonths
           /\ \A k \in DOMAIN posts_data : posts_data[k].created_utc >= six_months_ago

\* C16: when scrape_posts reports failure the endpoint answers 400 with the failure
\* message, and it answers 500 only when scrape_posts itself raised (which, catching
\* every Exception at line 109, it never does).
C16_FailureAnswers400 ==
    spc = "sent" =>
        /\ ~result.success => (response.status = 400 /\ response.detail = result.message)
        /\ response.status # 500

\* C17: the seeding step reads the file scrape_posts has just written, for every
\* subreddit name, one containing '+' included, so that "Successfully seeded data to
\* MongoDB" is printed only when the scraped posts were loaded into the collection.
C17_SeedsWhatWasScraped ==
    (spc \in {"respond", "sent"} /\ result.success) =>
        /\ SeedFileName(request.subreddit, request.method)
               = ScrapeFileName(request.subreddit, request.method)
        /\ (\E k \in DOMAIN console : console[k] = "Successfully seeded data to MongoDB")
               => /\ Exists(collections, CollectionName(request.subreddit)) \/ posts_data = <<>>
                  /\ Exists(collections, CollectionName(request.subreddit))
                        => Content(collections, CollectionName(request.subreddit))
                               = [k \in DOMAIN posts_data |-> ToDocument(posts_data[k])]
====
